---- MODULE Spec2Model ----
(***************************************************************************)
(* A model of procedura_sdk.remote_agent.RemoteAgent: one websocket, one   *)
(* receiver pump that routes inbound frames through the dict _by_job to    *)
(* per-call asyncio queues, and the two request patterns built on it       *)
(* (_request_sync wrapped by _run_sync, and _request_async_stream).        *)
(*                                                                         *)
(* Every coroutine step between two suspension points (await of the        *)
(* handshake, of the socket send, of a queue get, a yield) is one action;  *)
(* the pump handles one raw message per action.  Of the metrics calls the   *)
(* engine makes, save_error (procedura_sdk.metrics.MetricsClient), which   *)
(* keeps the list of error responses in errors.json, is modelled;          *)
(* record_event writes to an external event store and is not.              *)
(***************************************************************************)
EXTENDS Naturals, Sequences, FiniteSets, TLC

VARIABLES
    ws,                \* self._ws: "none" | "open" | "closed"
    recv_task,         \* self._recv_task: "none" | "running" | "done"
    orphans,           \* sockets (each with its pump) that self._ws no longer names
    by_job,            \* self._by_job: routing key -> the call whose queue it names
    inbox,             \* self._inbox
    q,                 \* the asyncio.Queue each call created (local q)
    pc,                \* where each call's coroutine stands
    mode,              \* "sync" (_request_sync) or "async" (_request_async_stream)
    msg_id,            \* local msg_id
    job_id_key_added,  \* local job_id_key_added
    ret,               \* what _request_sync returned
    out,               \* what _run_sync returned
    events,            \* what _request_async_stream has yielded so far
    sent,              \* request frames each call wrote to the socket
    nread,             \* raw messages the pumps have read so far
    routed,            \* history: frames the pump put on each call's queue, in wire order
    popped,            \* history: frames each call took from its queue
    malformed_at,      \* history: position on the wire of the last message json.loads rejected
    module,            \* the module (cmd) each call runs
    cfg,               \* self.cfg: subprotocol_token and auth_header_token
    token_file,        \* the text of TOKEN_PATH; None while the file does not exist
    bearer,            \* the tokens the last handshake begun put in its subprotocols and header
    errors_file,       \* <world_root>/errors.json: what is stored there
    given,             \* history: the error_data of each save_error call, in call order
    save_raised        \* history: a save_error call let an exception out to its caller

vars == << ws, recv_task, orphans, by_job, inbox, q, pc, mode, msg_id,
           job_id_key_added, ret, out, events, sent, nread, routed, popped,
           malformed_at, module, cfg, token_file, bearer,
           errors_file, given, save_raised >>

conn  == << ws, recv_task, orphans >>
locals == << mode, msg_id, module >>
auth  == << cfg, token_file, bearer >>
errlog == << errors_file, given, save_raised >>

----------------------------------------------------------------------------
(* Bounds and value domains *)

\* raw messages read off the wire in one behaviour with two calls
MaxFrames == 3

\* raw messages read off the wire in one behaviour with a single streaming call
MaxStreamFrames == 4

\* frames kept in the inbox, which nothing ever reads
MaxInbox == 1

\* raw messages read off the wire in one behaviour in which sockets drop and close
MaxConnFrames == 2

\* entries the histories routed and popped keep; more than any bounded wire carries
MaxLog == 6

\* save_error calls made from outside the engine in one behaviour
MaxSaves == 2

Calls == 1..2

\* dict.get of a missing field
None == "None"

\* uuid4().hex[:8] values, and the job ids the server hands out
MsgIds == {"m1", "m2"}
JobIds == {"j1", "j2"}
Keys   == MsgIds \cup JobIds

Statuses == {"ack", "started", "running", "finished", "error"}
Results  == {"r1", "r2"}

\* a deserialized inbound frame (a dict); code is only set on synthesized outcomes
Frame(i, j, s, r) == [id |-> i, job_id |-> j, status |-> s, result |-> r, code |-> None]

Frames ==
    { Frame(i, j, s, None) :
        i \in MsgIds \cup {None}, j \in JobIds \cup {None}, s \in Statuses \ {"finished"} }
    \cup
    { Frame(i, j, "finished", r) :
        i \in MsgIds \cup {None}, j \in JobIds \cup {None}, r \in Results }

\* The frames of the wire protocol (the docstrings of _request_sync and
\* _request_async_stream): the first reply to a request carries its id and may
\* disclose a job id; later frames carry the id or the job id; an error may carry
\* no key at all.
ServerFrames ==
    { f \in Frames :
        \/ f.id # None /\ f.job_id # None
           /\ f.status \in {"ack", "started", "finished"} /\ f.result # "r2"
        \/ f.id # None /\ f.job_id = None
           /\ f.status \in {"ack", "error"}
        \/ f.id = None /\ f.job_id # None
           /\ f.status \in {"running", "finished"}
        \/ f.id = None /\ f.job_id = None /\ f.status = "error" }

\* one raw websocket message: json.loads gives a dict, raises, or gives a non-dict
Json(msg) == [kind |-> "dict", msg |-> msg]
NoDict    == Frame(None, None, None, None)
Malformed == [kind |-> "malformed", msg |-> NoDict]
NonObject == [kind |-> "non-dict", msg |-> NoDict]

\* what run hands back: the result of a finished frame, or a whole frame; or it
\* raised; or it has not come back yet
Result(r)  == [kind |-> "result", result |-> r, frame |-> NoDict]
Whole(ev)  == [kind |-> "frame", result |-> None, frame |-> ev]
Raised     == [kind |-> "raised", result |-> None, frame |-> NoDict]

\* the exceptions that leave a request pattern uncaught: the handshake failed or
\* ran into connect_timeout; the socket send failed; the caller was cancelled
ConnectError   == [kind |-> "connect-error", result |-> None, frame |-> NoDict]
SendError      == [kind |-> "send-error", result |-> None, frame |-> NoDict]
CancelledError == [kind |-> "cancelled", result |-> None, frame |-> NoDict]
TimeoutError   == [kind |-> "timeout", result |-> None, frame |-> NoDict]
NoOut      == [kind |-> "none", result |-> None, frame |-> NoDict]

\* _request_sync has not returned
NoRet == [id |-> None, job_id |-> None, status |-> None, result |-> None,
          code |-> "no-return"]

----------------------------------------------------------------------------
(* Pure helpers *)

\* Python truthiness of a field read with dict.get
Truthy(x) == x # None /\ x # ""

\* a key that prefers the job id
RoutingKeyJobFirst(msg) ==
    IF msg.job_id # "None" /\ msg.job_id # "" THEN msg.job_id
    ELSE IF msg.id # "None" /\ msg.id # "" THEN msg.id
    ELSE ""

\* jid = str(msg.get("id") or msg.get("job_id") or "")
RoutingKey(msg) ==
    IF Truthy(msg.id) THEN msg.id
    ELSE IF Truthy(msg.job_id) THEN msg.job_id
    ELSE ""

\* a queue that puts new items at the front
PutFront(queue, msg) == << msg >> \o queue

\* a history takes a further entry
Log(h, x) == IF Len(h) < MaxLog THEN Append(h, x) ELSE h

\* asyncio.Queue.put on an unbounded queue, and the two halves of Queue.get
Put(queue, msg) == Append(queue, msg)
Front(queue)    == Head(queue)
Rest(queue)     == Tail(queue)

\* a check that takes every status but ack for terminal
IsNotAck(status) == status # "ack"

\* a check that knows finished alone
IsFinished(status) == status = "finished"

\* status in {"error", "finished"}
IsTerminal(status) == status \in {"error", "finished"}

\* an alias taken only from a frame whose status is ack
AliasKeyAckOnly(first) ==
    IF first.status = "ack" /\ first.job_id # "None" /\ first.job_id # ""
    THEN first.job_id ELSE "None"

\* the key to alias: job_id when isinstance(job_id, str) and job_id, else nothing
AliasKey(first) == IF Truthy(first.job_id) THEN first.job_id ELSE None

\* an assignment that is lost
BindNothing(bj, key, c) == bj

\* an assignment that rebuilds the dict with the new key alone
BindAlone(bj, key, c) == [k \in {key} |-> c]

\* self._by_job[key] = q
Bind(bj, key, c) == [k \in DOMAIN bj \cup {key} |-> IF k = key THEN c ELSE bj[k]]

\* self._by_job.pop(key, None)
Pop(bj, key) == [k \in DOMAIN bj \ {key} |-> bj[k]]

\* a finally block that releases nothing
ReleaseNothing(bj, mid, added) == bj

\* a finally block that forgets the alias
ReleaseIdOnly(bj, mid, added) == Pop(bj, mid)

\* a finally block that releases nothing when no alias was added
ReleaseIfAliased(bj, mid, added) ==
    IF Truthy(added) THEN Pop(Pop(bj, mid), added) ELSE bj

\* the finally block of both request patterns
Release(bj, mid, added) ==
    IF Truthy(added) THEN Pop(Pop(bj, mid), added) ELSE Pop(bj, mid)

\* outcomes that all carry the code of the first wait
OutcomeAckCode(code) == [id |-> None, job_id |-> None, status |-> "error",
                         result |-> None, code |-> "ACK_TIMEOUT"]

\* the synthesized outcomes of _request_sync
Outcome(code) == [id |-> None, job_id |-> None, status |-> "error", result |-> None,
                  code |-> code]

\* a _run_sync that raises on every frame that is not finished
RunSyncRaises(ev) == IF ev.status = "finished" THEN Result(ev.result) ELSE Raised

\* a _run_sync that hands back the frame in every case
RunSyncFrame(ev) == Whole(ev)

\* _run_sync: result of a finished frame, the frame itself on error, else RuntimeError
RunSyncOut(ev) ==
    IF ev.status = "finished" THEN Result(ev.result)
    ELSE IF ev.status = "error" THEN Whole(ev)
    ELSE Raised

\* {"phase": phase, **ev}
Event(phase, ev) == [phase |-> phase, frame |-> ev]

\* a loop that yields every frame under its status
StreamPhaseAll(ev) == ev.status

\* a loop that tags whatever it yields as running
StreamPhaseRunning(ev) == "running"

\* the phase under which the loop of _request_async_stream yields a frame; none
\* when the frame is dropped
StreamPhase(ev) ==
    IF ev.status = "running" THEN "running"
    ELSE IF IsTerminal(ev.status) THEN ev.status
    ELSE None

\* a pump that gives up on the first message json.loads rejects
PumpOutcomeStrict(raw) == IF raw.kind = "dict" THEN "route" ELSE "die"

\* one iteration of the pump: json.loads raised (continue), msg.get raised
\* AttributeError (caught outside the loop, the task ends), or the frame is routed
PumpOutcome(raw) ==
    IF raw.kind = "malformed" THEN "skip"
    ELSE IF raw.kind = "non-dict" THEN "die"
    ELSE "route"

\* a test that takes no socket for a live one
ConnectedNever(w) == FALSE

\* a test that takes any socket ever stored for a live one
ConnectedOnce(w) == w # "none"

\* self._ws and not self._ws.closed
Connected(w) == w = "open"

\* a timer that never fires
ExpiredNever(queue) == FALSE

\* wait_for(q.get(), timeout) runs into its timeout: nothing was there to get
Expired(queue) == queue = << >>

\* what a result says under session_token: out.get("session_token") of a dict,
\* nothing for a result that is no dict or has no such field
SessionToken(r) ==
    IF r = "s1" THEN "t1"
    ELSE IF r = "s0" THEN ""
    ELSE None

\* an adoption from the result of whatever module finished with a token
IssuedAnyModule(mod, ev) ==
    ev.status = "finished" /\ ev.result # "None"
    /\ (IF ev.result = "s1" THEN "t1" ELSE "") # ""

\* module == "login_password" and the run finished with a token: lines 299-304
Issued(mod, ev) ==
    mod = "login_password" /\ ev.status = "finished" /\ Truthy(SessionToken(ev.result))

\* an adoption that forgets the subprotocol token
AdoptHeaderOnly(c, tok) == [c EXCEPT !.auth_header_token = tok]

\* self.cfg.subprotocol_token = tok; self.cfg.auth_header_token = tok
AdoptToken(c, tok) == [subprotocol_token |-> tok, auth_header_token |-> tok]

\* _save_token: TOKEN_PATH.write_text(tok)
SaveToken(tok) == tok

\* what errors.json may hold: nothing (no file), no text or blanks, text that is
\* no JSON, JSON that is no list, bytes that are no UTF-8, or a list of entries
Absent == [kind |-> "absent", entries |-> << >>]
Unusable(kind) == [kind |-> kind, entries |-> << >>]
ErrorList(entries) == [kind |-> "list", entries |-> entries]

\* error_entry = {"timestamp": now, **error_data}
ErrorEntry(now, error_data) == [timestamp |-> now, data |-> error_data]

\* lines 188-198: errors = [] unless the file exists, has text, and the text is a
\* JSON list; JSONDecodeError and OSError are caught there, while the
\* UnicodeDecodeError of f.read() is neither and leaves the inner try
ReadErrors(file) ==
    IF file.kind = "undecodable" THEN [raised |-> TRUE, errors |-> << >>]
    ELSE IF file.kind = "list" THEN [raised |-> FALSE, errors |-> file.entries]
    ELSE [raised |-> FALSE, errors |-> << >>]

\* a save_error that writes the new entry alone
SaveErrorFresh(file, error_data, now) ==
    [file |-> [kind |-> "list", entries |-> << [timestamp |-> now, data |-> error_data] >>],
     raised |-> FALSE]

\* save_error: the list read, with the new entry appended, replaces the file;
\* whatever is raised on the way is caught at line 210 and the file is left
\* alone.  It yields what is stored afterwards and whether the caller sees an
\* exception.
SaveError(file, error_data, now) ==
    IF ReadErrors(file).raised
    THEN [file |-> file, raised |-> FALSE]
    ELSE [file |-> ErrorList(Append(ReadErrors(file).errors, ErrorEntry(now, error_data))),
          raised |-> FALSE]

\* isinstance(entities, dict) and len(entities) == 0, for the results "w0" (a
\* snapshot with no entities) and "w1" (one with entities)
EmptyEntities(r) == r = "w0"

\* the run reports to save_error: _record does for a server's error frame (status
\* "error" with the frame as result, lines 158-159), and _run_sync for a finished
\* worldstate_snapshot with no entities (lines 310-320); the synthesized outcomes
\* are recorded with no result or under status "timeout"
Saves(mod, ev) ==
    \/ ev.status = "error" /\ ev.code = None
    \/ ev.status = "finished" /\ mod = "worldstate_snapshot" /\ EmptyEntities(ev.result)

\* what it reports: the frame, or the EMPTY_WORLD response around the result
ReportedError(mod, ev) ==
    IF ev.status = "error" THEN ev
    ELSE [id |-> None, job_id |-> None, status |-> "error", result |-> ev.result,
          code |-> "EMPTY_WORLD"]

\* no handshake has begun
NoBearer == [subprotocol_token |-> "-", auth_header_token |-> "-"]

\* a pump task is reading some socket
PumpAlive == recv_task = "running" \/ orphans > 0

\* uuid4 has not returned k to a call before
Fresh(k) == \A c \in Calls : msg_id[c] # k

\* a request id no call has used
NextId == CHOOSE k \in MsgIds : Fresh(k)

\* calls are numbered in the order they start
NextCall == CHOOSE c \in Calls : pc[c] = "idle" /\ \A d \in Calls : pc[d] = "idle" => c <= d

----------------------------------------------------------------------------
(* Initial state: RemoteAgent.__init__, no call started *)

\* the state after RemoteAgent(url, token) with the text saved in TOKEN_PATH
InitStored(token, saved, file) ==
    /\ cfg = [subprotocol_token |-> IF Truthy(token) THEN token ELSE saved,
              auth_header_token |-> IF Truthy(token) THEN token ELSE saved]
    /\ token_file = saved
    /\ ws = "none"
    /\ recv_task = "none"
    /\ orphans = 0
    /\ by_job = << >>
    /\ inbox = << >>
    /\ q = [c \in Calls |-> << >>]
    /\ pc = [c \in Calls |-> "idle"]
    /\ mode = [c \in Calls |-> None]
    /\ msg_id = [c \in Calls |-> None]
    /\ job_id_key_added = [c \in Calls |-> None]
    /\ ret = [c \in Calls |-> NoRet]
    /\ out = [c \in Calls |-> NoOut]
    /\ events = [c \in Calls |-> << >>]
    /\ sent = [c \in Calls |-> << >>]
    /\ nread = 0
    /\ routed = [c \in Calls |-> << >>]
    /\ popped = [c \in Calls |-> << >>]
    /\ malformed_at = 0
    /\ module = [c \in Calls |-> None]
    /\ bearer = NoBearer
    /\ errors_file = file
    /\ given = << >>
    /\ save_raised = FALSE

\* an engine where no error has been saved yet
InitWith(token, saved) == InitStored(token, saved, Absent)

\* an engine made without a token where none was saved
Init == InitWith(None, None)

\* the entries other runs left in errors.json
OldEntries ==
    [i \in 1..2 |-> ErrorEntry(0, [id |-> None, job_id |-> None, status |-> "error",
                                    result |-> None,
                                    code |-> IF i = 1 THEN "OLD_1" ELSE "OLD_2"])]

StoredFiles ==
    {Absent} \cup { Unusable(k) : k \in {"empty", "invalid_json", "not_list", "undecodable"} }
    \cup { ErrorList(SubSeq(OldEntries, 1, n)) : n \in 0..2 }

\* an engine in a directory where errors.json holds any of these
InitErrors == \E file \in StoredFiles : InitStored(None, None, file)

\* an engine made with or without a token, where one was saved or none
InitLogin == \E token \in {None, "t9"}, saved \in {None, "t0"} : InitWith(token, saved)

----------------------------------------------------------------------------
(* Connection manager *)

\* _connect past its early return: the handshake is awaited
ConnectBegin(c) ==
    /\ pc[c] = "send"
    /\ ~Connected(ws)
    /\ bearer' = cfg
    /\ pc' = [pc EXCEPT ![c] = "connecting"]
    /\ UNCHANGED << conn, by_job, inbox, q, locals, job_id_key_added, ret, out, events,
                    sent, nread, routed, popped, malformed_at, errlog, cfg, token_file >>

\* the handshake completed: self._ws and self._recv_task are overwritten
ConnectOk(c) ==
    /\ pc[c] = "connecting"
    /\ orphans' = IF ws = "open" /\ recv_task = "running" THEN orphans + 1 ELSE orphans
    /\ ws' = "open"
    /\ recv_task' = "running"
    /\ pc' = [pc EXCEPT ![c] = "sending"]
    /\ UNCHANGED << by_job, inbox, q, locals, job_id_key_added, ret, out, events,
                    sent, nread, routed, popped, malformed_at, errlog, auth >>

\* exception exc leaves the request pattern through its finally block; out of
\* _request_sync it goes on through _run_sync and run, out of
\* _request_async_stream through run_async_stream to the consumer
Raise(c, exc) ==
    /\ pc' = [pc EXCEPT ![c] = "raised"]
    /\ by_job' = Release(by_job, msg_id[c], job_id_key_added[c])
    /\ out' = [out EXCEPT ![c] = exc]

\* the handshake failed or timed out (ConnectError), or the caller was cancelled
\* while it waited (CancelledError)
ConnectFail(c, exc) ==
    /\ pc[c] = "connecting"
    /\ Raise(c, exc)
    /\ UNCHANGED << conn, inbox, q, locals, job_id_key_added, ret, events,
                    sent, nread, routed, popped, malformed_at, errlog, auth >>

\* self._ws.send(json.dumps(payload)) on a live socket
SendOk(c) ==
    /\ pc[c] \in {"send", "sending"}
    /\ Connected(ws)
    /\ sent' = [sent EXCEPT ![c] = Append(@, [id |-> msg_id[c], mode |-> mode[c]])]
    /\ pc' = [pc EXCEPT ![c] = "wait_first"]
    /\ UNCHANGED << conn, by_job, inbox, q, locals, job_id_key_added, ret, out, events,
                    nread, routed, popped, malformed_at, errlog, auth >>

\* the send raised (SendError: the socket is gone), or the caller was cancelled in
\* it (CancelledError)
SendFail(c, exc) ==
    /\ \/ pc[c] = "sending"
       \/ pc[c] = "send" /\ Connected(ws)
    /\ Raise(c, exc)
    /\ UNCHANGED << conn, inbox, q, locals, job_id_key_added, ret, events,
                    sent, nread, routed, popped, malformed_at, errlog, auth >>

\* the socket closes or errors: the async for of its pump ends
ConnDrop ==
    /\ ws = "open"
    /\ ws' = "closed"
    /\ recv_task' = IF recv_task = "running" THEN "done" ELSE recv_task
    /\ UNCHANGED << orphans, by_job, inbox, q, pc, locals, job_id_key_added, ret, out,
                    events, sent, nread, routed, popped, malformed_at, errlog, auth >>

\* a socket that self._ws no longer names closes
OrphanDrop ==
    /\ orphans > 0
    /\ orphans' = orphans - 1
    /\ UNCHANGED << ws, recv_task, by_job, inbox, q, pc, locals, job_id_key_added, ret,
                    out, events, sent, nread, routed, popped, malformed_at, errlog, auth >>

\* _close: cancel and await the pump task, close the socket, forget it
Close ==
    /\ << ws, recv_task >> # << "none", "none" >>
    /\ recv_task' = "none"
    /\ ws' = "none"
    /\ UNCHANGED << orphans, by_job, inbox, q, pc, locals, job_id_key_added, ret, out,
                    events, sent, nread, routed, popped, malformed_at, errlog, auth >>

----------------------------------------------------------------------------
(* Receiver pump: one iteration of the async for in _pump; cap bounds how many *)
(* messages the server sends in one behaviour                                 *)

\* a pump that knows no registered key
RegisteredNever(jid) == FALSE

\* jid and jid in self._by_job
Registered(jid) == jid # "" /\ jid \in DOMAIN by_job

\* a pump that hands every routable frame to one and the same registered queue
QueueForAnyKey(bj, jid) == bj[CHOOSE k \in DOMAIN bj : \A k2 \in DOMAIN bj : bj[k] <= bj[k2]]

\* self._by_job[jid]
QueueFor(bj, jid) == bj[jid]

\* the iteration that reads raw as message number n of the wire
PumpStep(raw, n) ==
    /\ PumpAlive
    /\ nread' = n
    /\ malformed_at' = IF raw.kind = "malformed" THEN n ELSE malformed_at
    /\ IF PumpOutcome(raw) = "skip"
       THEN \* json.loads raised: continue
            UNCHANGED << conn, inbox, q, routed >>
       ELSE IF PumpOutcome(raw) = "die"
       THEN \* the outer except ends the task
            /\ IF recv_task = "running"
               THEN recv_task' = "done" /\ UNCHANGED << ws, orphans >>
               ELSE orphans' = orphans - 1 /\ UNCHANGED << ws, recv_task >>
            /\ UNCHANGED << inbox, q, routed >>
       ELSE LET msg == raw.msg
                jid == RoutingKey(msg) IN
            IF Registered(jid)
            THEN /\ q' = [q EXCEPT ![QueueFor(by_job, jid)] = Put(@, msg)]
                 /\ routed' = [routed EXCEPT ![QueueFor(by_job, jid)] = Log(@, msg)]
                 /\ UNCHANGED << conn, inbox >>
            ELSE /\ Len(inbox) < MaxInbox
                 /\ inbox' = Put(inbox, msg)
                 /\ UNCHANGED << conn, q, routed >>
    /\ UNCHANGED << by_job, pc, locals, job_id_key_added, ret, out, events, sent, popped,
                    auth, errlog >>

\* the pump reads one of the first cap messages of the wire
PumpRead(raw, cap) ==
    /\ nread < cap
    /\ PumpStep(raw, nread + 1)

\* the server goes on sending running frames for a job, one whenever the call
\* has taken the last one; they are not counted
PumpFlood(raw) ==
    /\ nread = MaxConnFrames
    /\ raw.kind = "dict" /\ raw.msg.status = "running"
    /\ Registered(RoutingKey(raw.msg))
    /\ q[QueueFor(by_job, RoutingKey(raw.msg))] = << >>
    /\ PumpStep(raw, nread)


----------------------------------------------------------------------------
(* The start of both request patterns, then _request_sync called by _run_sync *)

\* msg_id = uuid4().hex[:8]; q = Queue(); self._by_job[msg_id] = q; m is the
\* pattern and mod the module asked for
Start(c, k, m, mod) ==
    /\ pc[c] = "idle"
    /\ msg_id' = [msg_id EXCEPT ![c] = k]
    /\ mode' = [mode EXCEPT ![c] = m]
    /\ module' = [module EXCEPT ![c] = mod]
    /\ by_job' = Bind(by_job, k, c)
    /\ pc' = [pc EXCEPT ![c] = "send"]
    /\ UNCHANGED << conn, inbox, q, job_id_key_added, ret, out, events, sent, nread,
                    routed, popped, malformed_at, errlog, auth >>

\* one call of save_error(error_data); the clock reads one later at each call
DoSave(error_data) ==
    /\ errors_file' = SaveError(errors_file, error_data, Len(given) + 1).file
    /\ save_raised' = (save_raised \/ SaveError(errors_file, error_data, Len(given) + 1).raised)
    /\ given' = Log(given, error_data)

\* get_metrics().save_error(error_data) called from outside the engine, as
\* test_error_logging and test_multiple_errors do
SaveErrorCall(error_data) ==
    /\ Len(given) < MaxSaves
    /\ DoSave(error_data)
    /\ UNCHANGED << conn, by_job, inbox, q, pc, locals, job_id_key_added, ret, out, events,
                    sent, nread, routed, popped, malformed_at, auth >>

\* _request_sync returns ev through its finally block, having reported a server's
\* error frame to save_error; _run_sync maps it, persists and adopts the token a
\* login issued, and reports an empty world
Return(c, ev) ==
    /\ pc' = [pc EXCEPT ![c] = "returned"]
    /\ ret' = [ret EXCEPT ![c] = ev]
    /\ out' = [out EXCEPT ![c] = RunSyncOut(ev)]
    /\ by_job' = Release(by_job, msg_id[c], job_id_key_added[c])
    /\ cfg' = IF Issued(module[c], ev) THEN AdoptToken(cfg, SessionToken(ev.result)) ELSE cfg
    /\ token_file' = IF Issued(module[c], ev) THEN SaveToken(SessionToken(ev.result))
                     ELSE token_file
    /\ UNCHANGED bearer
    /\ IF Saves(module[c], ev)
       THEN DoSave(ReportedError(module[c], ev))
       ELSE UNCHANGED errlog

\* first = await wait_for(q.get(), ack_timeout), then lines 186-198
GetFirst(c) ==
    /\ pc[c] = "wait_first" /\ mode[c] = "sync"
    /\ q[c] # << >>
    /\ LET first == Front(q[c]) IN
       /\ q' = [q EXCEPT ![c] = Rest(@)]
       /\ popped' = [popped EXCEPT ![c] = Log(@, first)]
       /\ IF IsTerminal(first.status)
          THEN /\ Return(c, first)
               /\ UNCHANGED job_id_key_added
          ELSE /\ IF Truthy(AliasKey(first))
                  THEN /\ by_job' = Bind(by_job, AliasKey(first), c)
                       /\ job_id_key_added' = [job_id_key_added EXCEPT ![c] = AliasKey(first)]
                  ELSE UNCHANGED << by_job, job_id_key_added >>
               /\ pc' = [pc EXCEPT ![c] = "wait_final"]
               /\ UNCHANGED << ret, out, auth, errlog >>
    /\ UNCHANGED << conn, inbox, locals, events, sent, nread, routed, malformed_at >>

\* asyncio.TimeoutError in the first wait
AckTimeout(c) ==
    /\ pc[c] = "wait_first" /\ mode[c] = "sync"
    /\ Expired(q[c])
    /\ Return(c, Outcome("ACK_TIMEOUT"))
    /\ UNCHANGED << conn, inbox, q, locals, job_id_key_added, events, sent, nread,
                    routed, popped, malformed_at >>

\* asyncio.CancelledError in the first wait
AckCancelled(c) ==
    /\ pc[c] = "wait_first" /\ mode[c] = "sync"
    /\ Return(c, Outcome("ACK_CANCELLED"))
    /\ UNCHANGED << conn, inbox, q, locals, job_id_key_added, events, sent, nread,
                    routed, popped, malformed_at >>

\* one iteration of the while True loop of lines 202-209
GetFinal(c) ==
    /\ pc[c] = "wait_final"
    /\ q[c] # << >>
    /\ LET ev == Front(q[c]) IN
       /\ q' = [q EXCEPT ![c] = Rest(@)]
       /\ popped' = [popped EXCEPT ![c] = Log(@, ev)]
       /\ IF IsTerminal(ev.status)
          THEN Return(c, ev)
          ELSE UNCHANGED << pc, ret, out, by_job, auth, errlog >>
    /\ UNCHANGED << conn, inbox, locals, job_id_key_added, events, sent, nread, routed, malformed_at >>

\* asyncio.TimeoutError in the loop
FinalTimeout(c) ==
    /\ pc[c] = "wait_final"
    /\ Expired(q[c])
    /\ Return(c, Outcome("FINAL_TIMEOUT"))
    /\ UNCHANGED << conn, inbox, q, locals, job_id_key_added, events, sent, nread,
                    routed, popped, malformed_at >>

\* asyncio.CancelledError in the loop
FinalCancelled(c) ==
    /\ pc[c] = "wait_final"
    /\ Return(c, Outcome("FINAL_CANCELLED"))
    /\ UNCHANGED << conn, inbox, q, locals, job_id_key_added, events, sent, nread,
                    routed, popped, malformed_at >>

----------------------------------------------------------------------------
(* _request_async_stream *)

\* started = await wait_for(q.get(), 10.0); alias; yield {"phase": "started", **started}
StreamFirst(c) ==
    /\ pc[c] = "wait_first" /\ mode[c] = "async"
    /\ q[c] # << >>
    /\ LET started == Front(q[c]) IN
       /\ q' = [q EXCEPT ![c] = Rest(@)]
       /\ popped' = [popped EXCEPT ![c] = Log(@, started)]
       /\ IF Truthy(AliasKey(started))
          THEN /\ by_job' = Bind(by_job, AliasKey(started), c)
               /\ job_id_key_added' = [job_id_key_added EXCEPT ![c] = AliasKey(started)]
          ELSE UNCHANGED << by_job, job_id_key_added >>
       /\ events' = [events EXCEPT ![c] = Append(@, Event("started", started))]
    /\ pc' = [pc EXCEPT ![c] = "wait_next"]
    /\ UNCHANGED << conn, inbox, locals, ret, out, sent, nread, routed, malformed_at, errlog, auth >>

\* one iteration of the while True loop of lines 254-261
StreamNext(c) ==
    /\ pc[c] = "wait_next"
    /\ q[c] # << >>
    /\ LET ev == Front(q[c]) IN
       /\ q' = [q EXCEPT ![c] = Rest(@)]
       /\ popped' = [popped EXCEPT ![c] = Log(@, ev)]
       /\ IF StreamPhase(ev) = None
          THEN UNCHANGED << events, pc >>
          ELSE /\ events' = [events EXCEPT ![c] = Append(@, Event(StreamPhase(ev), ev))]
               /\ IF StreamPhase(ev) = "running"
                  THEN UNCHANGED pc
                  ELSE pc' = [pc EXCEPT ![c] = "yield_last"]
    /\ UNCHANGED << conn, by_job, inbox, locals, job_id_key_added, ret, out, sent, nread,
                    routed, malformed_at, errlog, auth >>

\* the consumer asks for the event after the terminal one: return, finally
StreamEnd(c) ==
    /\ pc[c] = "yield_last"
    /\ pc' = [pc EXCEPT ![c] = "ended"]
    /\ by_job' = Release(by_job, msg_id[c], job_id_key_added[c])
    /\ UNCHANGED << conn, inbox, q, locals, job_id_key_added, ret, out, events, sent,
                    nread, routed, popped, malformed_at, errlog, auth >>

\* asyncio.TimeoutError in a wait of the stream: it propagates
StreamTimeout(c) ==
    /\ mode[c] = "async"
    /\ pc[c] \in {"wait_first", "wait_next"}
    /\ Expired(q[c])
    /\ Raise(c, TimeoutError)
    /\ UNCHANGED << conn, inbox, q, locals, job_id_key_added, ret, events, sent, nread,
                    routed, popped, malformed_at, errlog, auth >>

\* the consumer is cancelled while the generator waits for a frame: the
\* CancelledError goes through the finally block and on to the consumer
StreamCancelled(c) ==
    /\ mode[c] = "async"
    /\ pc[c] \in {"wait_first", "wait_next"}
    /\ Raise(c, CancelledError)
    /\ UNCHANGED << conn, inbox, q, locals, job_id_key_added, ret, events, sent, nread,
                    routed, popped, malformed_at, errlog, auth >>

\* the consumer closes the sequence run_async_stream gave it, at an event it was
\* handed: the wrapper's generator ends at its yield, while the generator of
\* _request_async_stream, which the wrapper never closes, stays suspended at its
\* own yield inside the try block
StreamAbandon(c) ==
    /\ mode[c] = "async"
    /\ pc[c] \in {"wait_next", "yield_last"}
    /\ events[c] # << >>
    /\ pc' = [pc EXCEPT ![c] = "abandoned"]
    /\ UNCHANGED << conn, by_job, inbox, q, locals, job_id_key_added, ret, out, events,
                    sent, nread, routed, popped, malformed_at, errlog, auth >>

\* the event loop finalizes the unreferenced generator of _request_async_stream
\* (its asyncgen hook, or shutdown_asyncgens when the loop ends): GeneratorExit
\* at the yield, and the finally block runs
StreamFinalize(c) ==
    /\ pc[c] = "abandoned"
    /\ pc' = [pc EXCEPT ![c] = "closed"]
    /\ by_job' = Release(by_job, msg_id[c], job_id_key_added[c])
    /\ UNCHANGED << conn, inbox, q, locals, job_id_key_added, ret, out, events, sent,
                    nread, routed, popped, malformed_at, errlog, auth >>

----------------------------------------------------------------------------
(* Specification: request ids are fresh, the server picks the job ids *)

\* the server has disclosed job id j in a reply that carried a request id
Disclosed(j) ==
    \/ \E c \in Calls : \E i \in 1..Len(routed[c]) :
          routed[c][i].id # None /\ routed[c][i].job_id = j
    \/ \E i \in 1..Len(inbox) : inbox[i].id # None /\ inbox[i].job_id = j

\* A server answers only requests it was sent: a frame that carries a request
\* id answers that request (a sync one is opened with ack, an async one with
\* started), and a frame that carries a job id alone follows a reply that
\* disclosed that job id.  The job id a reply discloses is the server's choice.
ServerSends(f) ==
    IF f.id # None
    THEN \E c \in Calls :
            /\ msg_id[c] = f.id
            /\ sent[c] # << >>
            /\ f.status = "started" => mode[c] = "async"
            /\ (f.status = "ack" /\ f.job_id # None) => mode[c] = "sync"
    ELSE f.job_id # None => Disclosed(f.job_id)

Wire == { Json(f) : f \in { g \in ServerFrames : ServerSends(g) } } \cup {Malformed}

\* the modules a run may ask for, and the results of a login: no token ("r1"),
\* an empty one ("s0"), or a token
Modules == {"login_password", "cmd"}
LoginResults == {"r1", "s0", "s1"}

\* the replies to a run of login_password or of another module: an ack or an
\* error, and the finished frame with its result, all addressed by the id
LoginFrames ==
    { Frame(i, None, s, None) : i \in MsgIds, s \in {"ack", "error"} }
    \cup { Frame(i, None, "finished", r) : i \in MsgIds, r \in LoginResults }

LoginWire == { Json(f) : f \in { g \in LoginFrames : ServerSends(g) } }

\* run(mod, args)
StartModule(mod) ==
    /\ \E c \in Calls : pc[c] = "idle"
    /\ Start(NextCall, NextId, "sync", mod)

StartAny(m) ==
    /\ \E c \in Calls : pc[c] = "idle"
    /\ Start(NextCall, NextId, m, "cmd")

\* the steps of _send and _connect
Senders ==
    \/ \E c \in Calls : ConnectBegin(c)
    \/ \E c \in Calls : ConnectOk(c)
    \/ \E c \in Calls : ConnectFail(c, ConnectError)
    \/ \E c \in Calls : ConnectFail(c, CancelledError)
    \/ \E c \in Calls : SendOk(c)
    \/ \E c \in Calls : SendFail(c, SendError)
    \/ \E c \in Calls : SendFail(c, CancelledError)

\* the steps both request patterns share: _send, _connect, and the pump
Common(cap) ==
    \/ Senders
    \/ \E raw \in Wire : PumpRead(raw, cap)

SyncSteps ==
    \/ \E c \in Calls : GetFirst(c)
    \/ \E c \in Calls : AckTimeout(c)
    \/ \E c \in Calls : AckCancelled(c)
    \/ \E c \in Calls : GetFinal(c)
    \/ \E c \in Calls : FinalTimeout(c)
    \/ \E c \in Calls : FinalCancelled(c)

StreamSteps ==
    \/ \E c \in Calls : StreamFirst(c)
    \/ \E c \in Calls : StreamNext(c)
    \/ \E c \in Calls : StreamEnd(c)
    \/ \E c \in Calls : StreamTimeout(c)
    \/ \E c \in Calls : StreamCancelled(c)
    \/ \E c \in Calls : StreamAbandon(c)
    \/ \E c \in Calls : StreamFinalize(c)

\* sync and streaming calls side by side
Next ==
    StartAny("sync") \/ StartAny("async") \/ Common(MaxConnFrames) \/ SyncSteps \/ StreamSteps
Spec == Init /\ [][Next]_vars

\* every call is a run (_run_sync)
NextSync == StartAny("sync") \/ Common(MaxFrames) \/ SyncSteps
SpecSync == Init /\ [][NextSync]_vars

\* one run_async_stream on its own
NextStream ==
    \/ (\A c \in Calls : pc[c] = "idle") /\ StartAny("async")
    \/ Common(MaxStreamFrames)
    \/ StreamSteps
SpecStream == Init /\ [][NextStream]_vars

\* runs on an engine whose sockets drop and whose owner calls _close; the server
\* may also send JSON that is no object
NextConn ==
    \/ StartAny("sync")
    \/ Common(MaxConnFrames)
    \/ PumpRead(NonObject, MaxConnFrames)
    \/ SyncSteps
    \/ ConnDrop
    \/ OrphanDrop
    \/ Close
SpecConn == Init /\ [][NextConn]_vars

\* uuid4().hex[:8] is 32 random bits: it may return an id a call already uses
StartColliding(k, m) ==
    /\ \E c \in Calls : pc[c] = "idle"
    /\ Start(NextCall, k, m, "cmd")

\* runs whose request ids may collide
NextCollide ==
    \/ \E k \in MsgIds : StartColliding(k, "sync")
    \/ Common(MaxConnFrames)
    \/ SyncSteps
SpecCollide == Init /\ [][NextCollide]_vars

\* runs nobody cancels in their waits, on sockets that drop.  Every wait_for ends:
\* by the item its queue holds, or by its timer (ack_timeout and final_timeout
\* are finite)
NextDrop ==
    \/ StartAny("sync")
    \/ Common(MaxConnFrames)
    \/ \E c \in Calls : GetFirst(c)
    \/ \E c \in Calls : AckTimeout(c)
    \/ \E c \in Calls : GetFinal(c)
    \/ \E c \in Calls : FinalTimeout(c)
    \/ ConnDrop
    \/ OrphanDrop
WaitsEnd ==
    \A c \in Calls :
        /\ WF_vars(GetFirst(c)) /\ WF_vars(AckTimeout(c))
        /\ WF_vars(GetFinal(c)) /\ WF_vars(FinalTimeout(c))
SpecDrop == Init /\ [][NextDrop]_vars /\ WaitsEnd

\* one run nobody cancels, against a server that keeps sending running frames
NextFlood ==
    \/ (\A c \in Calls : pc[c] = "idle") /\ StartAny("sync")
    \/ Common(MaxConnFrames)
    \/ \E c \in Calls : GetFirst(c)
    \/ \E c \in Calls : AckTimeout(c)
    \/ \E c \in Calls : GetFinal(c)
    \/ \E c \in Calls : FinalTimeout(c)
    \/ \E raw \in Wire : PumpFlood(raw)
SpecFlood == Init /\ [][NextFlood]_vars /\ WaitsEnd

\* runs of login_password and of other modules, on sockets that drop
NextLogin ==
    \/ \E mod \in Modules : StartModule(mod)
    \/ Senders
    \/ \E raw \in LoginWire : PumpRead(raw, MaxConnFrames)
    \/ SyncSteps
    \/ ConnDrop
SpecLogin == InitLogin /\ [][NextLogin]_vars

\* the replies to a run of worldstate_snapshot
WorldFrames ==
    { Frame(i, None, s, None) : i \in MsgIds, s \in {"ack", "error"} }
    \cup { Frame(i, None, "finished", r) : i \in MsgIds, r \in {"w0", "w1"} }

WorldWire == { Json(f) : f \in { g \in WorldFrames : ServerSends(g) } }

\* the error_data of the calls made from outside: {status, message} with or
\* without a code
ErrorData ==
    { [id |-> None, job_id |-> None, status |-> "error", result |-> None, code |-> k] :
        k \in {None, "AUTH_ERROR"} }

\* one run of worldstate_snapshot, and save_error calls from outside, where
\* errors.json holds anything
NextErrors ==
    \/ (\A c \in Calls : pc[c] = "idle") /\ StartModule("worldstate_snapshot")
    \/ Senders
    \/ \E raw \in WorldWire : PumpRead(raw, MaxConnFrames)
    \/ SyncSteps
    \/ \E error_data \in ErrorData : SaveErrorCall(error_data)
SpecErrors == InitErrors /\ [][NextErrors]_vars

\* a server held to no protocol: any status and any job id, the empty string
\* included, in any frame that carries the id of a request it was sent or no id
AnyFrames ==
    Frames \cup { Frame(i, "", s, None) : i \in MsgIds, s \in {"ack", "running"} }

AnyWire ==
    { Json(f) : f \in { g \in AnyFrames :
        g.id # None => \E c \in Calls : msg_id[c] = g.id /\ sent[c] # << >> } }

\* runs against such a server
NextAny ==
    \/ StartAny("sync")
    \/ Senders
    \/ \E raw \in AnyWire : PumpRead(raw, MaxConnFrames)
    \/ SyncSteps
SpecAny == Init /\ [][NextAny]_vars

----------------------------------------------------------------------------
(* Properties *)

\* the keys a call holds: its correlation key and the job id it aliased
OwnKeys(c) == {msg_id[c], job_id_key_added[c]} \ {None}

InFlight(c) == pc[c] \in {"send", "connecting", "sending", "wait_first", "wait_final",
                          "wait_next", "yield_last"}

\* C1: every frame the pump puts on a call's queue, and every frame a sync call
\* returns, has as its routing key that call's own correlation key or the job id
\* that call aliased; a frame keyed to another call alone never reaches it.
C1_OnlyOwnFrames ==
    \A c \in Calls :
        /\ \A i \in 1..Len(routed[c]) : RoutingKey(routed[c][i]) \in OwnKeys(c)
        /\ (pc[c] = "returned" /\ ret[c].code = None) => RoutingKey(ret[c]) \in OwnKeys(c)

\* two sync calls were in flight together, each was sent frames, one has returned
\* a frame while the other still waits
C1_Witness ==
    /\ mode[1] = "sync" /\ mode[2] = "sync"
    /\ routed[1] # << >> /\ routed[2] # << >>
    /\ pc[1] = "returned" /\ ret[1].code = None
    /\ pc[2] = "wait_final"

\* C2: what a call has popped, followed by what still waits in its queue, is
\* exactly the sequence of frames the pump routed to that queue, in the order
\* the pump read them.
C2_Fifo == \A c \in Calls : routed[c] = popped[c] \o q[c]

\* a call popped two different frames while the other call's traffic went by
C2_Witness ==
    \E c, d \in Calls :
        /\ c # d
        /\ Len(popped[c]) >= 2 /\ popped[c][1] # popped[c][2]
        /\ routed[d] # << >>

\* C3: from the moment a call has aliased the job id of its first frame until
\* it ends, its correlation key and that job id both name its own queue in
\* _by_job.  (Violated: a second call whose first frame discloses the same job
\* id rebinds it.)
C3_AliasSameQueue ==
    \A c \in Calls :
        (pc[c] \in {"wait_final", "wait_next", "yield_last"}
            /\ job_id_key_added[c] # None) =>
            /\ msg_id[c] \in DOMAIN by_job
            /\ job_id_key_added[c] \in DOMAIN by_job
            /\ QueueFor(by_job, msg_id[c]) = c
            /\ QueueFor(by_job, job_id_key_added[c]) = c

\* C4: once a sync call has returned or raised, no key of _by_job names its
\* queue: neither its correlation key nor the alias it added.
C4_SyncReleased ==
    \A c \in Calls :
        (mode[c] = "sync" /\ pc[c] \in {"returned", "raised"}) =>
            \A k \in DOMAIN by_job : by_job[k] # c

\* a sync call that aliased a job id has returned its terminal frame, and a
\* frame reusing that job id went to the inbox instead of its queue
C4_Witness ==
    \E c \in Calls :
        /\ mode[c] = "sync" /\ pc[c] = "returned" /\ ret[c].code = None
        /\ job_id_key_added[c] # None
        /\ Len(popped[c]) = 2 /\ q[c] = << >>
        /\ \E i \in 1..Len(inbox) :
              inbox[i].id = None /\ inbox[i].job_id = job_id_key_added[c]

Terminals == {"error", "finished"}

\* C5: a sync call returns the ACK_TIMEOUT outcome (status error, handed on by
\* _run_sync, nothing raised) only when no frame ever reached its queue, and
\* then no key names its queue any more; a sync call that returned without
\* having popped a frame returned ACK_TIMEOUT, or ACK_CANCELLED when cancelled.
C5_AckTimeout ==
    \A c \in Calls :
        /\ (pc[c] = "returned" /\ ret[c].code = "ACK_TIMEOUT") =>
              /\ routed[c] = << >> /\ popped[c] = << >>
              /\ ret[c].status = "error"
              /\ out[c] = Whole(ret[c])
              /\ msg_id[c] \notin DOMAIN by_job
              /\ \A k \in DOMAIN by_job : by_job[k] # c
        /\ (pc[c] = "returned" /\ popped[c] = << >>) =>
              ret[c].code \in {"ACK_TIMEOUT", "ACK_CANCELLED"}

\* a sync call timed out waiting for its ack, and a reply that came too late went
\* to the inbox
C5_Witness ==
    \E c \in Calls :
        /\ pc[c] = "returned" /\ ret[c].code = "ACK_TIMEOUT"
        /\ \E i \in 1..Len(inbox) : inbox[i].id = msg_id[c]

\* C6: a sync call returns the FINAL_TIMEOUT outcome (status error, a code other
\* than ACK_TIMEOUT) only after it popped a first frame that was not terminal
\* and then nothing terminal; a sync call that returned having popped only
\* non-terminal frames returned FINAL_TIMEOUT, or FINAL_CANCELLED when cancelled.
C6_FinalTimeout ==
    \A c \in Calls :
        /\ (pc[c] = "returned" /\ ret[c].code = "FINAL_TIMEOUT") =>
              /\ popped[c] # << >>
              /\ \A i \in 1..Len(popped[c]) : popped[c][i].status \notin Terminals
              /\ q[c] = << >>
              /\ ret[c].status = "error"
              /\ ret[c] # Outcome("ACK_TIMEOUT")
              /\ out[c] = Whole(ret[c])
        /\ (pc[c] = "returned" /\ popped[c] # << >>
              /\ \A i \in 1..Len(popped[c]) : popped[c][i].status \notin Terminals) =>
              ret[c].code \in {"FINAL_TIMEOUT", "FINAL_CANCELLED"}

\* a sync call got its ack and then ran into the final timeout
C6_Witness ==
    \E c \in Calls :
        /\ pc[c] = "returned" /\ ret[c].code = "FINAL_TIMEOUT"
        /\ popped[c][1].status = "ack"

\* C7: a sync call whose first frame has status error or finished returns that
\* very frame, adds no alias for the job id it may carry, and pops nothing more.
C7_ImmediateTerminal ==
    \A c \in Calls :
        (mode[c] = "sync" /\ popped[c] # << >> /\ popped[c][1].status \in Terminals) =>
            /\ pc[c] = "returned"
            /\ ret[c] = popped[c][1]
            /\ job_id_key_added[c] = None
            /\ popped[c][1].job_id \notin DOMAIN by_job \/ by_job[popped[c][1].job_id] # c
            /\ Len(popped[c]) = 1

\* one sync call returned an immediate error frame, another an immediate finished
\* frame that carried a job id
C7_Witness ==
    \E c, d \in Calls :
        /\ pc[c] = "returned" /\ Len(popped[c]) = 1
        /\ popped[c][1].status = "error" /\ ret[c] = popped[c][1]
        /\ pc[d] = "returned" /\ Len(popped[d]) = 1
        /\ popped[d][1].status = "finished" /\ popped[d][1].job_id # None

\* C8: a sync call that popped a non-terminal first frame carrying job id J and
\* then, as its terminal frame, a finished frame addressed by J alone with
\* result R, completes with R as the value of run.
C8_FinishedByJobId ==
    \A c \in Calls :
        (mode[c] = "sync" /\ Len(popped[c]) >= 2
            /\ popped[c][1].status \notin Terminals
            /\ popped[c][1].job_id # None
            /\ popped[c][Len(popped[c])].status = "finished"
            /\ popped[c][Len(popped[c])].id = None
            /\ popped[c][Len(popped[c])].job_id = popped[c][1].job_id) =>
            /\ pc[c] = "returned"
            /\ out[c] = Result(popped[c][Len(popped[c])].result)

\* a sync call was acked with job id j2 and completed with r2 from a finished
\* frame that named j2 alone, while the other call was in flight
C8_Witness ==
    \E c, d \in Calls :
        /\ pc[c] = "returned" /\ Len(popped[c]) = 2
        /\ popped[c][1] = Frame(msg_id[c], "j2", "ack", None)
        /\ popped[c][2] = Frame(None, "j2", "finished", "r2")
        /\ out[c] = Result("r2")
        /\ d # c /\ InFlight(d)

StreamOver(c) == pc[c] \in {"yield_last", "ended", "abandoned", "closed"}

\* C9: a streaming call that popped a started frame, then n running frames, then
\* one finished or error frame has yielded exactly those n+2 frames, in that
\* order, under the phases started, running (n times) and the terminal status,
\* and pops and yields nothing after the last one.
C9_StreamEvents ==
    \A c \in Calls :
        LET n == Len(popped[c]) - 2 IN
        (mode[c] = "async" /\ Len(popped[c]) >= 2
            /\ popped[c][1].status = "started"
            /\ (\A i \in 2..(n + 1) : popped[c][i].status = "running")
            /\ popped[c][n + 2].status \in Terminals) =>
            /\ Len(events[c]) = n + 2
            /\ events[c][1] = Event("started", popped[c][1])
            /\ (\A i \in 2..(n + 1) : events[c][i] = Event("running", popped[c][i]))
            /\ events[c][n + 2] = Event(popped[c][n + 2].status, popped[c][n + 2])
            /\ StreamOver(c)

\* started, two running frames and finished were yielded as four events and the
\* sequence has ended
C9_Witness ==
    \E c \in Calls :
        /\ pc[c] = "ended"
        /\ Len(popped[c]) = 4
        /\ popped[c][1].status = "started"
        /\ popped[c][2].status = "running" /\ popped[c][3].status = "running"
        /\ popped[c][4].status = "finished"
        /\ Len(events[c]) = 4

\* C10: in a streaming call every popped frame with status finished or error,
\* the first frame included, is yielded under its status as phase and is the
\* last frame popped and the last event; every popped running frame is yielded
\* under phase running.  (Violated: the first frame is always yielded as
\* started and the stream goes on.)
C10_TerminalAnywhere ==
    \A c \in Calls :
        mode[c] = "async" =>
            \A i \in 1..Len(popped[c]) :
                /\ popped[c][i].status \in Terminals =>
                      /\ i = Len(popped[c])
                      /\ StreamOver(c)
                      /\ events[c] # << >>
                      /\ events[c][Len(events[c])] =
                            Event(popped[c][i].status, popped[c][i])
                /\ popped[c][i].status = "running" =>
                      \E j \in 1..Len(events[c]) :
                          events[c][j] = Event("running", popped[c][i])

\* C11: once a streaming call's sequence has ended (after its terminal event, by
\* a timeout or failure, or because the consumer closed it after some events),
\* no key of _by_job names the call's queue.  (Violated: closing the sequence of
\* run_async_stream leaves the generator of _request_async_stream suspended, and
\* its keys registered, until the event loop finalizes it.)
C11_StreamReleased ==
    \A c \in Calls :
        (mode[c] = "async" /\ pc[c] \in {"ended", "raised", "abandoned", "closed"}) =>
            \A k \in DOMAIN by_job : by_job[k] # c

\* C12: a message json.loads rejects changes nothing but the pump's position on
\* the wire: the pump tasks and the socket stay as they were, no queue and not
\* the inbox gets an item, and every call stands where it stood with the same
\* steps open to it (its timeout included, which depends on its queue alone).
C12_MalformedDiscarded ==
    [][malformed_at' # malformed_at =>
          /\ UNCHANGED << ws, recv_task, orphans, by_job, inbox, q, pc, mode, msg_id,
                          job_id_key_added, ret, out, events, sent, routed, popped >>
          /\ PumpAlive']_vars

\* the first message on the wire was malformed; the pump went on to route the ack
\* and the finished frame that followed, and the call completed with the result
C12_Witness ==
    \E c \in Calls :
        /\ malformed_at = 1 /\ nread = 3
        /\ Len(routed[c]) = 2
        /\ pc[c] = "returned" /\ out[c] = Result("r1")

\* C13: whenever the engine's socket is open, its pump task is running and no
\* other pump task is alive.  (Violated: a JSON message that is no object ends
\* the pump while the socket stays open, and two overlapping handshakes leave
\* two sockets with a pump each.)
C13_OnePumpWhileOpen ==
    Connected(ws) => (recv_task = "running" /\ orphans = 0)

\* C14: however the handshakes of concurrent callers interleave, the engine has
\* at most one open socket and at most one pump task.  (Violated: both callers
\* pass the test of _connect before either has stored its socket.)
C14_NoSecondSocket ==
    /\ (IF Connected(ws) THEN 1 ELSE 0) + orphans <= 1
    /\ (IF recv_task = "running" THEN 1 ELSE 0) + orphans <= 1

\* C15: a call that leaves its handshake by failure stores no socket and starts
\* no pump (the connection state is what it was), and a call that reaches
\* _connect while no live socket is stored goes into a handshake of its own.
C15_ConnectFailure ==
    [][\A c \in Calls :
          /\ (pc[c] = "connecting" /\ pc'[c] = "raised") =>
                UNCHANGED << ws, recv_task, orphans >>
          /\ (pc[c] = "send" /\ ws # "open" /\ pc'[c] # "send") =>
                pc'[c] = "connecting"]_vars

\* one call's handshake failed; another call then found the engine unconnected
\* and, after a dropped socket in between or not, got a socket and a pump
C15_Witness ==
    \E c, d \in Calls :
        /\ pc[c] = "raised" /\ out[c] = ConnectError /\ sent[c] = << >>
        /\ pc[d] = "wait_first"
        /\ ws = "open" /\ recv_task = "running" /\ orphans = 0

\* C16: a sync call that leaves its handshake other than by success returns a
\* structured outcome (status error and a code) which run hands back.
\* (Violated: the exception of _connect leaves _request_sync uncaught.)
C16_ConnectFailureStructured ==
    [][\A c \in Calls :
          (mode[c] = "sync" /\ pc[c] = "connecting"
              /\ pc'[c] \notin {"connecting", "sending"}) =>
              /\ pc'[c] = "returned"
              /\ ret'[c].status = "error" /\ ret'[c].code # None
              /\ out'[c] = Whole(ret'[c])]_vars

\* C17: no sync call ends by raising CancelledError; a cancelled sync call has
\* returned an outcome with status error and a cancellation code, and no key of
\* _by_job names its queue.  (Violated: a cancellation while connecting or
\* sending leaves _request_sync as an exception.)
C17_CancelledStructured ==
    \A c \in Calls :
        (mode[c] = "sync"
            /\ \/ out[c] = CancelledError
               \/ ret[c].code \in {"ACK_CANCELLED", "FINAL_CANCELLED"}) =>
            /\ pc[c] = "returned"
            /\ ret[c].status = "error"
            /\ ret[c].code \in {"ACK_CANCELLED", "FINAL_CANCELLED"}
            /\ \A k \in DOMAIN by_job : by_job[k] # c

\* C18: a step of _close that had something to close leaves no socket stored, no
\* pump task stored and no pump task alive, and a call that reaches _connect
\* after it goes into a handshake of its own.  (Violated: a socket and pump
\* orphaned by overlapping handshakes outlive _close.)
C18_CloseLeavesNothing ==
    [][/\ ((ws # "none" /\ ws' = "none") \/ (recv_task # "none" /\ recv_task' = "none")) =>
             (ws' = "none" /\ recv_task' = "none" /\ ~PumpAlive')
       /\ \A c \in Calls :
             (ws = "none" /\ pc[c] = "send" /\ pc'[c] # "send") => pc'[c] = "connecting"]_vars

\* C19: a correlation key that is bound in _by_job is never bound anew: while it
\* stays registered it names the queue it was registered for.  (Violated: a
\* call whose uuid4 prefix equals a registered key replaces the binding.)
C19_NoSilentOverwrite ==
    [][\A k \in (DOMAIN by_job) \cap MsgIds :
          k \in DOMAIN by_job' => by_job'[k] = by_job[k]]_vars

\* a sync call waits for a frame
Waiting(c) == mode[c] = "sync" /\ pc[c] \in {"wait_first", "wait_final"}

\* the engine's socket has dropped and no pump task is left to read anything
Dropped == ws = "closed" /\ ~PumpAlive

\* C20: the step in which the socket drops changes no call's queue, position or
\* result (nothing is signalled to a waiter); and a sync call that waits after
\* the drop, while no pump reads again, comes back with ACK_TIMEOUT when no
\* frame had been routed to it, and with FINAL_TIMEOUT when frames had been but
\* no terminal one.
C20_TimeoutAfterDrop ==
    /\ [][(ws = "open" /\ ws' = "closed") =>
             UNCHANGED << by_job, inbox, q, pc, ret, out, popped, routed >>]_vars
    /\ \A c \in Calls :
          (Dropped /\ Waiting(c) /\ routed[c] = << >>)
              ~> (PumpAlive \/ (pc[c] = "returned" /\ ret[c] = Outcome("ACK_TIMEOUT")))
    /\ \A c \in Calls :
          (Dropped /\ Waiting(c) /\ routed[c] # << >>
              /\ \A i \in 1..Len(routed[c]) : routed[c][i].status \notin Terminals)
              ~> (PumpAlive \/ (pc[c] = "returned" /\ ret[c] = Outcome("FINAL_TIMEOUT")))

\* the socket has dropped under two waiting calls: one has its ack and waits for
\* the final frame, the other has received nothing
C20_Witness ==
    \E c, d \in Calls :
        /\ Dropped
        /\ pc[c] = "wait_final" /\ q[c] = << >> /\ popped[c] # << >>
        /\ pc[d] = "wait_first" /\ routed[d] = << >>

Over(c) == pc[c] \in {"returned", "raised", "ended", "closed"}

\* C23: in the step in which one call ends and releases its keys, every key that
\* names the queue of another call in flight keeps naming it, and that call's
\* queue holds what it held.  (Violated: the ending call pops its alias even
\* when that job id by now names another call's queue.)
C23_OthersUntouched ==
    [][\A c \in Calls :
          (~Over(c) /\ Over(c)') =>
              \A d \in Calls \ {c} :
                  InFlight(d) =>
                      /\ q'[d] = q[d]
                      /\ \A k \in DOMAIN by_job :
                            by_job[k] = d => (k \in DOMAIN by_job' /\ by_job'[k] = d)]_vars

\* C24: a frame goes to the inbox exactly when its routing key is empty or
\* names no queue; the step that puts it there appends it to the inbox, gives
\* no queue an item, ends no pump task and leaves every call where it stood.
C24_UnroutedToInbox ==
    [][/\ inbox' # inbox =>
             /\ Len(inbox') = Len(inbox) + 1
             /\ \A i \in 1..Len(inbox) : inbox'[i] = inbox[i]
             /\ LET f == inbox'[Len(inbox')]
                    key == IF Truthy(f.id) THEN f.id
                           ELSE IF Truthy(f.job_id) THEN f.job_id ELSE ""
                IN key = "" \/ key \notin DOMAIN by_job
             /\ UNCHANGED << ws, recv_task, orphans, by_job, q, pc, ret, out, events,
                             routed, popped, job_id_key_added >>
       /\ \A c \in Calls :
             routed'[c] # routed[c] =>
                 LET f == routed'[c][Len(routed'[c])]
                     key == IF Truthy(f.id) THEN f.id
                            ELSE IF Truthy(f.job_id) THEN f.job_id ELSE ""
                 IN key # "" /\ key \in DOMAIN by_job]_vars

\* an error frame that carries no key at all lies in the inbox; the pump went on
\* and a call completed with the result of its own finished frame
C24_Witness ==
    \E c \in Calls :
        /\ inbox # << >>
        /\ inbox[1].id = None /\ inbox[1].job_id = None
        /\ pc[c] = "returned" /\ Len(popped[c]) = 2 /\ out[c] = Result("r1")
        /\ recv_task = "running"

\* C25: a frame addressed by job id J alone never goes to the inbox while a call
\* is in flight to whose queue the pump has already routed a non-terminal first
\* frame disclosing J.  (Violated: the pump reads the frame before the call has
\* taken its first frame off the queue and added the alias.)
C25_AliasBeforeNextFrame ==
    [][inbox' # inbox =>
          LET f == inbox'[Len(inbox')] IN
          (f.id = None /\ f.job_id # None) =>
              ~ \E c \in Calls :
                    /\ InFlight(c) /\ routed[c] # << >>
                    /\ routed[c][1].status \notin Terminals
                    /\ routed[c][1].job_id = f.job_id]_vars

\* C26: a key that names the queue of a call in flight is never bound to another
\* queue.  (Violated: the alias assignment of a second call whose first frame
\* discloses the same job id.)
C26_AliasKeepsBinding ==
    [][\A k \in DOMAIN by_job :
          LET d == by_job[k] IN
          (InFlight(d) /\ pc'[d] \notin {"returned", "raised", "ended", "closed"}
              /\ k \in DOMAIN by_job') => by_job'[k] = d]_vars

\* C27: the pump routes by the id when the frame has a non-empty one and by the
\* job id otherwise, never by both: a frame put on a queue names that queue by
\* this one key, and a frame put in the inbox has this one key unregistered
\* (or has neither field), whatever its other field is.
C27_SingleKey ==
    [][/\ \A c \in Calls :
             routed'[c] # routed[c] =>
                 LET f == routed'[c][Len(routed'[c])] IN
                 IF f.id # None /\ f.id # ""
                 THEN f.id \in DOMAIN by_job /\ by_job[f.id] = c
                 ELSE /\ f.job_id # None /\ f.job_id # ""
                      /\ f.job_id \in DOMAIN by_job /\ by_job[f.job_id] = c
       /\ inbox' # inbox =>
             LET f == inbox'[Len(inbox')] IN
             IF f.id # None /\ f.id # ""
             THEN f.id \notin DOMAIN by_job
             ELSE (f.job_id # None /\ f.job_id # "") => f.job_id \notin DOMAIN by_job]_vars

\* a frame whose id names no queue lies in the inbox although the job id it
\* carries is registered
C27_Witness ==
    /\ inbox # << >>
    /\ inbox[1].id # None /\ inbox[1].id \notin DOMAIN by_job
    /\ inbox[1].job_id \in DOMAIN by_job

\* C28: no pump task ends because of a message it read: a step of the pump
\* leaves the socket and the pump tasks as they were.  (Violated: JSON that is
\* no object ends the task that read it.)
C28_PumpSurvivesNonObject ==
    [][nread' # nread => UNCHANGED << ws, recv_task, orphans >>]_vars

\* C29: a sync call that got past its first frame keeps waiting while it pops
\* frames that are not terminal, changing neither _by_job nor its result, and
\* the first terminal frame it pops is the last frame it pops and the one it
\* returns.
C29_DiscardUntilTerminal ==
    /\ [](\A c \in Calls :
            (mode[c] = "sync" /\ popped[c] # << >>
                /\ popped[c][1].status \notin Terminals) =>
                /\ \A i \in 2..Len(popped[c]) :
                      popped[c][i].status \in Terminals =>
                          (i = Len(popped[c]) /\ pc[c] = "returned" /\ ret[c] = popped[c][i])
                /\ (\A i \in 1..Len(popped[c]) : popped[c][i].status \notin Terminals) =>
                      \/ pc[c] = "wait_final"
                      \/ pc[c] = "returned"
                         /\ ret[c].code \in {"FINAL_TIMEOUT", "FINAL_CANCELLED"})
    /\ [][\A c \in Calls :
            (pc[c] = "wait_final" /\ popped'[c] # popped[c]
                /\ popped'[c][Len(popped'[c])].status \notin Terminals) =>
                (pc'[c] = "wait_final" /\ by_job' = by_job /\ ret' = ret /\ out' = out)]_vars

\* a sync call popped its ack, discarded a running frame, and returned the
\* finished frame that came after it
C29_Witness ==
    \E c \in Calls :
        /\ pc[c] = "returned" /\ Len(popped[c]) = 3
        /\ popped[c][1].status = "ack" /\ popped[c][2].status = "running"
        /\ popped[c][3].status = "finished" /\ ret[c] = popped[c][3]

\* C30: a sync call that waits for a frame eventually comes back, whatever the
\* server sends.  (Violated: each non-terminal frame the loop pops starts the
\* final timeout anew, so a server that keeps sending them keeps the call
\* waiting for ever.)
C30_SyncReturns ==
    \A c \in Calls : Waiting(c) ~> Over(c)

\* C22: the step in which a run of login_password comes back with a finished
\* frame whose result holds a non-empty session_token T leaves T in the token
\* file, as the subprotocol token and as the authorization-header token; and
\* every handshake carries the two tokens the engine holds when it begins, so
\* the handshakes after that step carry T.
C22_TokenAdopted ==
    [][\A c \in Calls :
          /\ (pc[c] # "returned" /\ pc'[c] = "returned" /\ module[c] = "login_password"
                 /\ ret'[c].status = "finished"
                 /\ SessionToken(ret'[c].result) \notin {None, ""}) =>
                LET T == SessionToken(ret'[c].result) IN
                /\ token_file' = T
                /\ cfg'.subprotocol_token = T
                /\ cfg'.auth_header_token = T
          /\ (pc[c] = "send" /\ pc'[c] = "connecting") => bearer' = cfg]_vars

\* a login came back with token t1, which is saved and adopted; the socket
\* dropped, and the next run's handshake carried t1 twice
C22_Witness ==
    \E c, d \in Calls :
        /\ module[c] = "login_password" /\ pc[c] = "returned" /\ out[c] = Result("s1")
        /\ token_file = "t1"
        /\ cfg = [subprotocol_token |-> "t1", auth_header_token |-> "t1"]
        /\ d # c /\ bearer = cfg /\ pc[d] = "wait_first"

\* C31: from its first step on, and as long as it is in flight, a call's fresh
\* correlation key names its queue: while it connects, while it sends and while
\* it waits.  So a frame that carries a call's id lies in the inbox only when
\* that call was over when the pump read it; and a call writes one request
\* frame, carrying its id and its pattern, or none.
C31_RegisteredBeforeSend ==
    \A c \in Calls :
        /\ (InFlight(c) /\ pc[c] # "idle") =>
              (msg_id[c] \in DOMAIN by_job /\ by_job[msg_id[c]] = c)
        /\ \A i \in 1..Len(inbox) :
              (msg_id[c] # None /\ inbox[i].id = msg_id[c]) =>
                  Over(c)
        /\ Len(sent[c]) <= 1
        /\ pc[c] \in {"wait_first", "wait_final", "wait_next", "yield_last"} =>
              sent[c] = << [id |-> msg_id[c], mode |-> mode[c]] >>
        /\ pc[c] \in {"send", "connecting", "sending"} => sent[c] = << >>

\* a sync call and a streaming call have each sent their one request, and the
\* first reply to each lies on its queue, read by the pump before the call ran
C31_Witness ==
    \E c, d \in Calls :
        /\ mode[c] = "sync" /\ mode[d] = "async"
        /\ pc[c] = "wait_first" /\ pc[d] = "wait_first"
        /\ Len(q[c]) = 1 /\ q[c][1].id = msg_id[c]
        /\ Len(q[d]) = 1 /\ q[d][1].id = msg_id[d]

\* the keys of _by_job that name the queue of call c
KeysOf(c) == { k \in DOMAIN by_job : by_job[k] = c }

\* C32: a sync call whose first frame is neither finished nor error goes on to
\* wait for its final frame, whatever that first status is, and never returns
\* the first frame or an ack outcome; the alias it holds is the job_id of that
\* first frame when it is a non-empty string and none otherwise, whatever job
\* ids later frames carry; the keys that name its queue are its correlation key
\* and that alias, two at most.
C32_FirstFrameIsAck ==
    \A c \in Calls :
        /\ (mode[c] = "sync" /\ popped[c] # << >>) =>
              LET first == popped[c][1] IN
                IF first.status \in {"finished", "error"}
                THEN job_id_key_added[c] = None /\ pc[c] = "returned"
                     /\ ret[c] = first
                ELSE /\ pc[c] \in {"wait_final", "returned"}
                     /\ pc[c] = "returned" =>
                           /\ ret[c] # first
                           /\ ret[c].code \notin {"ACK_TIMEOUT", "ACK_CANCELLED"}
                     /\ job_id_key_added[c] =
                           IF first.job_id \in JobIds THEN first.job_id ELSE None
        /\ (mode[c] = "sync" /\ popped[c] = << >>) => job_id_key_added[c] = None
        /\ KeysOf(c) \subseteq OwnKeys(c)
        /\ Cardinality(KeysOf(c)) <= 2

\* a run took a running frame for its ack and aliased its job id; the next
\* frame it popped carried another job id, and two keys name its queue
C32_Witness ==
    \E c \in Calls :
        /\ mode[c] = "sync" /\ pc[c] = "wait_final"
        /\ Len(popped[c]) = 2
        /\ popped[c][1].status = "running" /\ popped[c][1].job_id = "j1"
        /\ popped[c][2].job_id = "j2" /\ popped[c][2].id = msg_id[c]
        /\ KeysOf(c) = {msg_id[c], "j1"}

\* C33: a call that reaches _connect while the stored socket is open leaves it
\* by the early return: it begins no handshake, opens no socket and starts no
\* pump, and the socket, the pump task, the sockets left behind, the tokens of
\* the handshake and, when its send then succeeds, the correlator are what they
\* were.
C33_ConnectIdempotent ==
    [][\A c \in Calls :
          (pc[c] = "send" /\ ws = "open" /\ pc'[c] # "send") =>
              /\ pc'[c] \in {"wait_first", "raised"}
              /\ ws' = ws /\ recv_task' = recv_task /\ orphans' = orphans
              /\ bearer' = bearer
              /\ pc'[c] = "wait_first" => by_job' = by_job]_vars

\* two runs have sent their requests over the one socket the first of them
\* opened: the second found it open
C33_Witness ==
    /\ \A c \in Calls : sent[c] # << >>
    /\ ws = "open" /\ recv_task = "running" /\ orphans = 0

\* C34: a streaming call that ended with a timeout is over, no key of its own
\* is registered any more (its correlation key, and its alias if it had one),
\* and it has yielded an event for nothing but frames it popped: none at all
\* when the timeout came in the wait for the first frame.  A timeout comes only
\* in a wait whose queue holds no frame.
C34_StreamTimeout ==
    /\ \A c \in Calls :
          (mode[c] = "async" /\ out[c] = TimeoutError) =>
              /\ pc[c] = "raised"
              /\ OwnKeys(c) \cap DOMAIN by_job = {}
              /\ Len(events[c]) <= Len(popped[c])
              /\ popped[c] = << >> => events[c] = << >>
              /\ \A i \in 1..Len(events[c]) :
                    events[c][i].phase \notin {"finished", "error"}
    /\ \A c \in Calls :
          (mode[c] = "async" /\ pc[c] \in {"wait_first", "wait_next"}
             /\ q[c] # << >>) => ~ENABLED StreamTimeout(c)

\* the request was sent and no frame came within the first-frame bound: the
\* stream raised the timeout with no event yielded
C34_Witness ==
    \E c \in Calls :
        /\ mode[c] = "async" /\ out[c] = TimeoutError
        /\ sent[c] # << >> /\ popped[c] = << >> /\ events[c] = << >>
        /\ by_job = << >>

\* the frames a stream popped after its first that have a status the loop yields
Yielded(c) ==
    SelectSeq(Tail(popped[c]), LAMBDA f : f.status \in {"running", "finished", "error"})

\* C35: the events of a streaming call after its started event are, in order,
\* the frames it popped after the first whose status is running, finished or
\* error, each under its status as phase: a frame of any other status adds no
\* event and leaves the call waiting for the next frame.  A finished or error
\* frame is the last frame popped and its event the last event, and the call
\* is past its loop exactly when it has popped one.
C35_StreamLoop ==
    \A c \in Calls :
        (mode[c] = "async" /\ popped[c] # << >>) =>
            /\ Len(events[c]) = 1 + Len(Yielded(c))
            /\ events[c][1].phase = "started"
            /\ \A i \in 1..Len(Yielded(c)) :
                  /\ events[c][i + 1] = Event(Yielded(c)[i].status, Yielded(c)[i])
                  /\ Yielded(c)[i].status \in {"finished", "error"} =>
                        i = Len(Yielded(c))
            /\ \A i \in 2..Len(popped[c]) :
                  popped[c][i].status \in {"finished", "error"} => i = Len(popped[c])
            /\ pc[c] \in {"yield_last", "ended"} =>
                  popped[c][Len(popped[c])].status \in {"finished", "error"}
            /\ (Len(popped[c]) >= 2
                  /\ popped[c][Len(popped[c])].status \in {"finished", "error"}) =>
                  pc[c] \in {"yield_last", "ended", "abandoned", "closed"}

\* started, then an ack frame that was dropped, then finished: two events, and
\* the sequence has ended
C35_Witness ==
    \E c \in Calls :
        /\ mode[c] = "async" /\ pc[c] = "ended"
        /\ Len(popped[c]) = 3
        /\ popped[c][1].status = "started"
        /\ popped[c][2].status = "ack"
        /\ popped[c][3].status = "finished"
        /\ Len(events[c]) = 2 /\ events[c][2].phase = "finished"

\* C36: the engine's two tokens and the token file change only in the step in
\* which a run of login_password comes back with a finished frame whose result
\* holds a non-empty session_token.  Every other step leaves all three as they
\* were: the steps of a run of another module, whatever it returns, and the
\* return of a login with an error frame, a timeout or cancellation outcome, or
\* a finished result with no token or an empty one.
C36_TokensUnchanged ==
    [][(cfg' # cfg \/ token_file' # token_file) =>
          \E c \in Calls :
              /\ module[c] = "login_password"
              /\ pc[c] # "returned" /\ pc'[c] = "returned"
              /\ ret'[c].status = "finished"
              /\ SessionToken(ret'[c].result) \notin {None, ""}]_vars

\* a run of another module came back with a result that holds a session_token,
\* and a login came back with an empty one: no token is adopted or saved
C36_Witness ==
    \E c, d \in Calls :
        /\ module[c] = "cmd" /\ pc[c] = "returned" /\ out[c] = Result("s1")
        /\ module[d] = "login_password" /\ pc[d] = "returned" /\ out[d] = Result("s0")
        /\ token_file # "t1"
        /\ cfg.subprotocol_token # "t1" /\ cfg.auth_header_token # "t1"

\* C37: no save_error call lets an exception out.  A call on a stored list
\* leaves a list one longer, with the entries held before in their places and,
\* at its end, the given error_data with a timestamp; nothing else changes the
\* file.  So a stored list ends with one entry per call made, in call order,
\* after the entries it held at first.
C37_SaveErrorAppends ==
    /\ [](~save_raised)
    /\ [](errors_file.kind = "list" =>
            LET n == Len(errors_file.entries) - Len(given) IN
            /\ n >= 0
            /\ \A i \in 1..n : errors_file.entries[i].timestamp = 0
            /\ \A i \in 1..Len(given) :
                  /\ errors_file.entries[n + i].data = given[i]
                  /\ errors_file.entries[n + i].timestamp = i)
    /\ [][(given' # given =>
               /\ Len(given') = Len(given) + 1
               /\ errors_file.kind = "list" =>
                     /\ errors_file'.kind = "list"
                     /\ Len(errors_file'.entries) = Len(errors_file.entries) + 1
                     /\ SubSeq(errors_file'.entries, 1, Len(errors_file.entries))
                           = errors_file.entries
                     /\ errors_file'.entries[Len(errors_file'.entries)].data
                           = given'[Len(given')])
           /\ (errors_file' # errors_file => given' # given)]_vars

\* three calls on a list of two entries, the last of them made by a run of
\* worldstate_snapshot that found no entities: five entries, the old two first
C37_Witness ==
    /\ errors_file.kind = "list" /\ Len(errors_file.entries) = 5
    /\ errors_file.entries[1].data.code = "OLD_1"
    /\ errors_file.entries[2].data.code = "OLD_2"
    /\ Len(given) = 3 /\ given[1] # given[2]
    /\ errors_file.entries[5].data.code = "EMPTY_WORLD"
    /\ \E c \in Calls : pc[c] = "returned" /\ out[c] = Result("w0")
====
